---------------------------- MODULE Spec2Model ----------------------------
(***************************************************************************)
(* Model of the service monitor of step4_monitoring (src/monitor.py,       *)
(* src/config.py, src/logger.py): one ServiceMonitor instance, its         *)
(* configuration, its clock and the records it hands to the logger.        *)
(*                                                                         *)
(* Time is counted in whole minutes (datetime.now() read at minute         *)
(* resolution); latencies are whole milliseconds.  A float the monitor     *)
(* computes (a mean, a percentage) is the exact rational [num, den] in     *)
(* lowest terms.                                                           *)
(***************************************************************************)
EXTENDS Integers, Sequences, FiniteSets, TLC

VARIABLES
    service,                \* what the service may answer to the k-th probe of a cycle
    config,                 \* self.config (MonitoringConfig)
    now,                    \* datetime.now(), in minutes
    consecutive_failures,   \* self.consecutive_failures
    last_alert_time,        \* self.last_alert_time: alert key -> minute
    health_status,          \* self.health_status
    request_history,        \* self.request_history
    metrics_history,        \* self.metrics_history
    pc,                     \* position of start_monitoring / monitoring_cycle
    requests,               \* monitoring_cycle's local list of samples
    metrics,                \* monitoring_cycle's local snapshot
    alerts,                 \* monitoring_cycle's local list of candidate alerts
    logged,                 \* records handed to MonitoringLogger in this cycle
    call,                   \* history: the last direct call and its result
    fired,                  \* history: <<type, level>> -> minute of its last true answer
    trail,                  \* history: the last calculate_metrics calls, or what the last cycles emitted
    answers,                \* should_alert's answers to alerts[1..Len(answers)]
    cycles,                 \* history: number of cycles started
    probes                  \* history: the probes made in this cycle, in order

vars == <<service, config, now, consecutive_failures, last_alert_time, health_status,
          request_history, metrics_history, pc, requests, metrics, alerts,
          logged, call, fired, trail, answers, cycles, probes>>

(***************************************************************************)
(* Bounds of the model.                                                    *)
(***************************************************************************)
MaxTime == 5
MaxCooldown == 2
MaxSamples == 3
MaxFailures == 6
MaxCycles == 2
MaxBatch == 21

(***************************************************************************)
(* Numbers.                                                                *)
(***************************************************************************)
RECURSIVE Gcd(_, _)
Gcd(a, b) == IF b = 0 THEN a ELSE Gcd(b, a % b)

Abs(i) == IF i < 0 THEN -i ELSE i

\* The number n/d (d > 0) in lowest terms.
Rat(n, d) ==
    LET g == Gcd(Abs(n), d)
    IN  [num |-> n \div g, den |-> d \div g]

Num(i) == [num |-> i, den |-> 1]

\* x > t and x >= t for a number x and a whole threshold t.
Gt(x, t) == x.num > t * x.den
Ge(x, t) == x.num >= t * x.den
Eq(x, t) == x.num = t * x.den

(***************************************************************************)
(* Configuration (src/config.py).                                          *)
(***************************************************************************)
DefaultCooldownMinutes == 5
DefaultSamplesPerCheck == 3
DefaultInferenceInterval == 5

ThresholdsConfig ==
    [response_time_ms     |-> [warning |-> 2000, critical |-> 5000],
     p95_latency_ms       |-> [warning |-> 3000, critical |-> 6000],
     error_rate_percent   |-> [warning |-> 10,   critical |-> 25],
     consecutive_failures |-> [warning |-> 3,    critical |-> 5]]

DefaultConfig ==
    [monitoring |-> [samples_per_check |-> DefaultSamplesPerCheck,
                     inference_test_interval_minutes |-> DefaultInferenceInterval],
     thresholds |-> ThresholdsConfig,
     alerts |-> [enabled |-> TRUE, cooldown_minutes |-> DefaultCooldownMinutes],
     inference_test |-> [enabled |-> TRUE]]

(***************************************************************************)
(* Alert keys.                                                             *)
(***************************************************************************)
AlertTypes ==
    {"response_time", "p95_latency", "error_rate", "consecutive_failures",
     "health_status"}

Levels == {"warning", "critical"}

\* Mutant: the key leaves the level out, so both levels share one entry.
AlertKeyByType(alert_type, level) == alert_type \o "_"

\* alert_key = f"{alert_type}_{level}"
AlertKey(alert_type, level) == alert_type \o "_" \o level

NoCall == [op |-> "none"]

(***************************************************************************)
(* ServiceMonitor.should_alert: the answer and the map it leaves.          *)
(***************************************************************************)
\* Mutant: the timestamp is refreshed on a suppressed call too.
should_alert_refreshing(alert_type, level) ==
    LET alert_key == AlertKey(alert_type, level)
        cooldown == config.alerts.cooldown_minutes
        suppressed == /\ alert_key \in DOMAIN last_alert_time
                      /\ now - last_alert_time[alert_key] < cooldown
    IN  IF ~config.alerts.enabled
        THEN [ret |-> FALSE, last_alert_time |-> last_alert_time]
        ELSE [ret |-> ~suppressed,
              last_alert_time |->
                  (alert_key :> now) @@ last_alert_time]

\* Mutant: the cooldown is compared with <= instead of <.
should_alert_inclusive(alert_type, level) ==
    LET alert_key == AlertKey(alert_type, level)
        cooldown == config.alerts.cooldown_minutes
    IN  IF ~config.alerts.enabled
        THEN [ret |-> FALSE, last_alert_time |-> last_alert_time]
        ELSE IF /\ alert_key \in DOMAIN last_alert_time
                /\ now - last_alert_time[alert_key] <= cooldown
        THEN [ret |-> FALSE, last_alert_time |-> last_alert_time]
        ELSE [ret |-> TRUE,
              last_alert_time |-> (alert_key :> now) @@ last_alert_time]

\* Mutant: the cooldown is compared one minute short.
should_alert_early(alert_type, level) ==
    LET alert_key == AlertKey(alert_type, level)
        cooldown == config.alerts.cooldown_minutes
    IN  IF ~config.alerts.enabled
        THEN [ret |-> FALSE, last_alert_time |-> last_alert_time]
        ELSE IF /\ alert_key \in DOMAIN last_alert_time
                /\ now - last_alert_time[alert_key] < cooldown - 1
        THEN [ret |-> FALSE, last_alert_time |-> last_alert_time]
        ELSE [ret |-> TRUE,
              last_alert_time |-> (alert_key :> now) @@ last_alert_time]

should_alert(alert_type, level) ==
    LET alert_key == AlertKey(alert_type, level)
        cooldown == config.alerts.cooldown_minutes
    IN  IF ~config.alerts.enabled
        THEN [ret |-> FALSE, last_alert_time |-> last_alert_time]
        ELSE IF /\ alert_key \in DOMAIN last_alert_time
                /\ now - last_alert_time[alert_key] < cooldown
        THEN [ret |-> FALSE, last_alert_time |-> last_alert_time]
        ELSE [ret |-> TRUE,
              last_alert_time |-> (alert_key :> now) @@ last_alert_time]

(***************************************************************************)
(* The gate alone: should_alert called for any alert of two dimensions at  *)
(* any minute of a clock that never runs backwards.                        *)
(***************************************************************************)
GateTypes == {"response_time", "error_rate"}

GateConfigs ==
    {[DefaultConfig EXCEPT !.alerts = [enabled |-> e, cooldown_minutes |-> c]] :
        e \in BOOLEAN, c \in 0..MaxCooldown}

GateInit ==
    /\ service = <<>>
    /\ config \in GateConfigs
    /\ now = 0
    /\ consecutive_failures = 0
    /\ last_alert_time = <<>>
    /\ health_status = FALSE
    /\ request_history = <<>>
    /\ metrics_history = <<>>
    /\ pc = "gate"
    /\ requests = <<>>
    /\ metrics = <<>>
    /\ alerts = <<>>
    /\ logged = <<>>
    /\ call = NoCall
    /\ fired = <<>>
    /\ trail = <<>>
    /\ answers = <<>>
    /\ cycles = 0
    /\ probes = <<>>

\* The clock advances by a minute.
Tick ==
    /\ now < MaxTime
    /\ now' = now + 1
    /\ UNCHANGED <<probes, service, config, consecutive_failures, last_alert_time, health_status,
                   request_history, metrics_history, pc, requests, metrics,
                   alerts, logged, call, fired, trail, answers, cycles>>

\* One call should_alert(alert_type, level).
ShouldAlertCall ==
    \E alert_type \in GateTypes, level \in Levels :
        LET r == should_alert(alert_type, level)
            key == <<alert_type, level>>
        IN  /\ last_alert_time' = r.last_alert_time
            /\ call' = [op |-> "should_alert", alert_type |-> alert_type,
                        level |-> level, at |-> now, ret |-> r.ret,
                        pre |-> last_alert_time, pre_fired |-> fired]
            /\ fired' = IF r.ret THEN (key :> now) @@ fired ELSE fired
            /\ UNCHANGED <<probes, service, config, now, consecutive_failures, health_status,
                           request_history, metrics_history, pc, requests,
                           metrics, alerts, logged, trail, answers,
                           cycles>>

GateNext == Tick \/ ShouldAlertCall

GateSpec == GateInit /\ [][GateNext]_vars

(***************************************************************************)
(* ServiceMonitor.check_thresholds.  An alert is the dict the code builds; *)
(* its message is the fixed text and the number formatted into it.         *)
(***************************************************************************)
Alert(type, level, text, value, threshold) ==
    [type |-> type, level |-> level,
     message |-> [text |-> text, value |-> value],
     value |-> value, threshold |-> Num(threshold)]

\* Mutant: the warning test is an "if" of its own, not an "elif".
response_time_alerts_both(m) ==
    LET t == config.thresholds.response_time_ms
    IN  (IF Gt(m.response_time_avg, t.critical)
         THEN <<Alert("response_time", "critical", "critical response time",
                      m.response_time_avg, t.critical)>>
         ELSE <<>>)
        \o
        (IF Gt(m.response_time_avg, t.warning)
         THEN <<Alert("response_time", "warning", "high response time",
                      m.response_time_avg, t.warning)>>
         ELSE <<>>)

\* Mutant: the average latency is compared with >=.
response_time_alerts_inclusive(m) ==
    LET t == config.thresholds.response_time_ms
    IN  IF Ge(m.response_time_avg, t.critical)
        THEN <<Alert("response_time", "critical", "critical response time",
                     m.response_time_avg, t.critical)>>
        ELSE IF Ge(m.response_time_avg, t.warning)
        THEN <<Alert("response_time", "warning", "high response time",
                     m.response_time_avg, t.warning)>>
        ELSE <<>>

response_time_alerts(m) ==
    LET t == config.thresholds.response_time_ms
    IN  IF Gt(m.response_time_avg, t.critical)
        THEN <<Alert("response_time", "critical", "critical response time",
                     m.response_time_avg, t.critical)>>
        ELSE IF Gt(m.response_time_avg, t.warning)
        THEN <<Alert("response_time", "warning", "high response time",
                     m.response_time_avg, t.warning)>>
        ELSE <<>>

\* Mutant: a p95 above the critical threshold is reported as a warning.
p95_latency_alerts_warning_only(m) ==
    LET t == config.thresholds.p95_latency_ms
    IN  IF Gt(m.response_time_p95, t.warning)
        THEN <<Alert("p95_latency", "warning", "high P95 latency",
                     m.response_time_p95, t.warning)>>
        ELSE <<>>

p95_latency_alerts(m) ==
    LET t == config.thresholds.p95_latency_ms
    IN  IF Gt(m.response_time_p95, t.critical)
        THEN <<Alert("p95_latency", "critical", "critical P95 latency",
                     m.response_time_p95, t.critical)>>
        ELSE IF Gt(m.response_time_p95, t.warning)
        THEN <<Alert("p95_latency", "warning", "high P95 latency",
                     m.response_time_p95, t.warning)>>
        ELSE <<>>

error_rate_alerts(m) ==
    LET t == config.thresholds.error_rate_percent
    IN  IF Gt(m.error_rate, t.critical)
        THEN <<Alert("error_rate", "critical", "critical error rate",
                     m.error_rate, t.critical)>>
        ELSE IF Gt(m.error_rate, t.warning)
        THEN <<Alert("error_rate", "warning", "high error rate",
                     m.error_rate, t.warning)>>
        ELSE <<>>

consecutive_failures_alerts(m) ==
    LET t == config.thresholds.consecutive_failures
    IN  IF m.consecutive_failures >= t.critical
        THEN <<Alert("consecutive_failures", "critical",
                     "critical number of consecutive failures",
                     Num(m.consecutive_failures), t.critical)>>
        ELSE IF m.consecutive_failures >= t.warning
        THEN <<Alert("consecutive_failures", "warning",
                     "many consecutive failures",
                     Num(m.consecutive_failures), t.warning)>>
        ELSE <<>>

\* Mutant: the health alert is raised from the monitor's own flag, and only
\* when errors were seen.
health_status_alerts_from_errors(m) ==
    IF ~health_status /\ Gt(m.error_rate, 0)
    THEN <<Alert("health_status", "critical", "service unavailable", Num(0), 1)>>
    ELSE <<>>

health_status_alerts(m) ==
    IF ~m.health_status
    THEN <<Alert("health_status", "critical", "service unavailable", Num(0), 1)>>
    ELSE <<>>

\* Mutant: the health check is done first.
check_thresholds_health_first(m) ==
    health_status_alerts(m) \o response_time_alerts(m) \o p95_latency_alerts(m)
        \o error_rate_alerts(m) \o consecutive_failures_alerts(m)

check_thresholds(m) ==
    response_time_alerts(m) \o p95_latency_alerts(m) \o error_rate_alerts(m)
        \o consecutive_failures_alerts(m) \o health_status_alerts(m)

(***************************************************************************)
(* check_thresholds alone: applied to any snapshot under any thresholds,   *)
(* those with the warning above the critical one included.                 *)
(***************************************************************************)
MaxValue == 3

ThresholdPairs ==
    {[warning |-> 1, critical |-> 2], [warning |-> 2, critical |-> 1],
     [warning |-> 2, critical |-> 2]}

ThresholdConfigs ==
    [response_time_ms : ThresholdPairs, p95_latency_ms : ThresholdPairs,
     error_rate_percent : ThresholdPairs, consecutive_failures : ThresholdPairs]

\* A ServiceMetrics value with the given readings.
Snapshot(avg, p95, er, cf, h) ==
    [timestamp |-> 0, response_time_avg |-> avg, response_time_p95 |-> p95,
     error_rate |-> er, total_requests |-> 0, successful_requests |-> 0,
     failed_requests |-> 0, consecutive_failures |-> cf, health_status |-> h]

ThresholdsInit ==
    /\ service = <<>>
    /\ \E th \in ThresholdConfigs : config = [DefaultConfig EXCEPT !.thresholds = th]
    /\ \E avg \in 0..MaxValue, p95 \in 0..MaxValue, er \in 0..MaxValue,
          cf \in 0..MaxValue, h \in BOOLEAN :
          metrics = Snapshot(Num(avg), Num(p95), Num(er), cf, h)
    /\ health_status \in BOOLEAN
    /\ now = 0
    /\ consecutive_failures = 0
    /\ last_alert_time = <<>>
    /\ request_history = <<>>
    /\ metrics_history = <<>>
    /\ pc = "thresholds"
    /\ requests = <<>>
    /\ alerts = <<>>
    /\ logged = <<>>
    /\ call = NoCall
    /\ fired = <<>>
    /\ trail = <<>>
    /\ answers = <<>>
    /\ cycles = 0
    /\ probes = <<>>

\* One call check_thresholds(metrics).
CheckThresholdsCall ==
    /\ call = NoCall
    /\ alerts' = check_thresholds(metrics)
    /\ call' = [op |-> "check_thresholds"]
    /\ UNCHANGED <<probes, service, config, now, consecutive_failures, last_alert_time,
                   health_status, request_history, metrics_history, pc,
                   requests, metrics, logged, fired, trail, answers, cycles>>

ThresholdsNext == CheckThresholdsCall

ThresholdsSpec == ThresholdsInit /\ [][ThresholdsNext]_vars

(***************************************************************************)
(* ServiceMonitor.calculate_metrics: the snapshot of a batch of samples    *)
(* and the consecutive-failure counter it leaves.                          *)
(***************************************************************************)
\* A RequestMetrics value.
RequestMetrics(endpoint, response_time, status_code, success, timestamp) ==
    [endpoint |-> endpoint, response_time |-> response_time,
     status_code |-> status_code, success |-> success, timestamp |-> timestamp]

RECURSIVE SumSeq(_)
SumSeq(q) == IF q = <<>> THEN 0 ELSE Head(q) + SumSeq(Tail(q))

\* x put at its place in the ascending sequence q.
RECURSIVE Insert(_, _)
Insert(x, q) ==
    IF q = <<>> THEN <<x>>
    ELSE IF x <= Head(q) THEN <<x>> \o q
    ELSE <<Head(q)>> \o Insert(x, Tail(q))

\* Mutant: the latencies are left in the order of the batch.
SortedAsGiven(q) == q

\* sorted(q)
RECURSIVE Sorted(_)
Sorted(q) == IF q = <<>> THEN <<>> ELSE Insert(Head(q), Sorted(Tail(q)))

\* Mutant: the index of the median.
P95IndexMedian(n) == n \div 2

\* int(0.95 * n): the double 0.95 * n truncates to floor(95 n / 100) for
\* every n up to 100000; Python indexes from 0.
P95Index(n) == (95 * n) \div 100

\* Mutant: the latencies of all the samples, the failed ones included.
ResponseTimesOfAll(reqs) ==
    [i \in 1..Len(reqs) |-> reqs[i].response_time]

\* [r.response_time for r in requests if r.success]
ResponseTimes(reqs) ==
    LET successful_requests == SelectSeq(reqs, LAMBDA r : r.success)
    IN  [i \in 1..Len(successful_requests) |->
            successful_requests[i].response_time]

\* Mutant: the share of failed samples, not multiplied by 100.
ErrorRateFraction(failed_count, total_requests) ==
    IF total_requests > 0
    THEN Rat(failed_count, total_requests)
    ELSE Num(100)

\* (failed_count / total_requests * 100) if total_requests > 0 else 100
ErrorRate(failed_count, total_requests) ==
    IF total_requests > 0
    THEN Rat(failed_count * 100, total_requests)
    ELSE Num(100)

\* Mutant: the total counts the successful samples only.
calculate_metrics_total_successful(reqs) ==
    LET successful_count == Len(SelectSeq(reqs, LAMBDA r : r.success))
        failed_count == Len(SelectSeq(reqs, LAMBDA r : ~r.success))
        counter == IF reqs = <<>> THEN consecutive_failures
                   ELSE IF failed_count > 0
                   THEN consecutive_failures + failed_count
                   ELSE 0
    IN  [metrics |->
            [timestamp |-> now, response_time_avg |-> Num(0),
             response_time_p95 |-> Num(0),
             error_rate |-> ErrorRate(failed_count, Len(reqs)),
             total_requests |-> successful_count,
             successful_requests |-> successful_count,
             failed_requests |-> failed_count,
             consecutive_failures |-> counter,
             health_status |-> health_status],
         consecutive_failures |-> counter]

\* Mutant: the counter is set to the batch's failure count, not added to.
calculate_metrics_overwriting(reqs) ==
    LET failed_count == Len(SelectSeq(reqs, LAMBDA r : ~r.success))
    IN  [metrics |->
            [timestamp |-> now, response_time_avg |-> Num(0),
             response_time_p95 |-> Num(0), error_rate |-> Num(100),
             total_requests |-> Len(reqs),
             successful_requests |-> Len(reqs) - failed_count,
             failed_requests |-> failed_count,
             consecutive_failures |-> failed_count,
             health_status |-> health_status],
         consecutive_failures |-> failed_count]

calculate_metrics(reqs) ==
    IF reqs = <<>>
    THEN [metrics |->
             [timestamp |-> now, response_time_avg |-> Num(0),
              response_time_p95 |-> Num(0), error_rate |-> Num(100),
              total_requests |-> 0, successful_requests |-> 0,
              failed_requests |-> 0,
              consecutive_failures |-> consecutive_failures,
              health_status |-> health_status],
          consecutive_failures |-> consecutive_failures]
    ELSE
    LET successful_requests == SelectSeq(reqs, LAMBDA r : r.success)
        failed_requests == SelectSeq(reqs, LAMBDA r : ~r.success)
        response_times == ResponseTimes(reqs)
        total_requests == Len(reqs)
        successful_count == Len(successful_requests)
        failed_count == Len(failed_requests)
        avg_response_time ==
            IF response_times # <<>>
            THEN Rat(SumSeq(response_times), Len(response_times))
            ELSE Num(0)
        sorted_times == Sorted(response_times)
        p95_index == P95Index(Len(sorted_times))
        p95_latency ==
            IF response_times # <<>>
            THEN Num(sorted_times[p95_index + 1])
            ELSE Num(0)
        error_rate == ErrorRate(failed_count, total_requests)
        counter ==
            IF failed_count > 0
            THEN consecutive_failures + failed_count
            ELSE 0
    IN  [metrics |->
             [timestamp |-> now, response_time_avg |-> avg_response_time,
              response_time_p95 |-> p95_latency, error_rate |-> error_rate,
              total_requests |-> total_requests,
              successful_requests |-> successful_count,
              failed_requests |-> failed_count,
              consecutive_failures |-> counter,
              health_status |-> health_status],
          consecutive_failures |-> counter]

(***************************************************************************)
(* calculate_metrics alone: applied, call after call, to any batch of at   *)
(* most MaxSamples samples, the empty one included.                        *)
(***************************************************************************)
HealthEndpoint == "/health"

\* A successful and a failed sample: the counter reads nothing else.
AggregateSamples ==
    {RequestMetrics(HealthEndpoint, 100, 200, TRUE, 0),
     RequestMetrics(HealthEndpoint, 100, 500, FALSE, 0)}

Batches(samples) ==
    UNION {[1..n -> samples] : n \in 0..MaxSamples}

FailedCount(reqs) == Len(SelectSeq(reqs, LAMBDA r : ~r.success))

\* The last three entries of q \o <<e>>.
Remember(q, e) ==
    IF Len(q) < 3 THEN Append(q, e) ELSE Append(Tail(q), e)

AggregateInit ==
    /\ service = <<>>
    /\ config = DefaultConfig
    /\ health_status \in BOOLEAN
    /\ now = 0
    /\ consecutive_failures = 0
    /\ last_alert_time = <<>>
    /\ request_history = <<>>
    /\ metrics_history = <<>>
    /\ pc = "aggregate"
    /\ requests = <<>>
    /\ metrics = <<>>
    /\ alerts = <<>>
    /\ logged = <<>>
    /\ call = NoCall
    /\ fired = <<>>
    /\ trail = <<>>
    /\ answers = <<>>
    /\ cycles = 0
    /\ probes = <<>>

\* One call calculate_metrics(reqs).
CalculateMetricsCall ==
    \E reqs \in Batches(AggregateSamples) :
        LET r == calculate_metrics(reqs)
        IN  /\ consecutive_failures + FailedCount(reqs) <= MaxFailures
            /\ requests' = reqs
            /\ metrics' = r.metrics
            /\ consecutive_failures' = r.consecutive_failures
            /\ call' = [op |-> "calculate_metrics",
                        before |-> consecutive_failures]
            /\ trail' = Remember(trail, [total |-> Len(reqs),
                                         failed |-> FailedCount(reqs),
                                         counter |-> r.consecutive_failures])
            /\ UNCHANGED <<probes, service, config, now, last_alert_time, health_status,
                           request_history, metrics_history, pc, alerts,
                           logged, fired, answers, cycles>>

AggregateNext == CalculateMetricsCall

AggregateSpec == AggregateInit /\ [][AggregateNext]_vars

(***************************************************************************)
(* calculate_metrics applied once to a batch of up to MaxBatch samples     *)
(* (samples_per_check has no upper limit) whose latencies differ and come  *)
(* unsorted, with no failed sample, every third one failed, or all failed. *)
(***************************************************************************)
\* The latency of the i-th sample: 100..320 ms in steps of 10, in the order
\* the stride gives.
Latency(i, stride) == 100 + 10 * ((i * stride) % 23)

Strides == {1, 7, 11}

FailurePatterns == {"none", "third", "all"}

Fails(i, pattern) ==
    \/ pattern = "all"
    \/ pattern = "third" /\ i % 3 = 0

GeneratedBatch(n, stride, pattern) ==
    [i \in 1..n |->
        RequestMetrics(HealthEndpoint, Latency(i, stride),
                       IF Fails(i, pattern) THEN 500 ELSE 200,
                       ~Fails(i, pattern), 0)]

BatchInit ==
    /\ service = <<>>
    /\ config = DefaultConfig
    /\ health_status \in BOOLEAN
    /\ now = 0
    /\ consecutive_failures = 0
    /\ last_alert_time = <<>>
    /\ request_history = <<>>
    /\ metrics_history = <<>>
    /\ pc = "aggregate"
    /\ requests \in {GeneratedBatch(n, stride, pattern) :
                         n \in 0..MaxBatch, stride \in Strides,
                         pattern \in FailurePatterns}
    /\ metrics = <<>>
    /\ alerts = <<>>
    /\ logged = <<>>
    /\ call = NoCall
    /\ fired = <<>>
    /\ trail = <<>>
    /\ answers = <<>>
    /\ cycles = 0
    /\ probes = <<>>

\* The call calculate_metrics(requests).
AggregateBatch ==
    /\ call = NoCall
    /\ LET r == calculate_metrics(requests)
       IN  /\ metrics' = r.metrics
           /\ consecutive_failures' = r.consecutive_failures
    /\ call' = [op |-> "calculate_metrics", before |-> consecutive_failures]
    /\ UNCHANGED <<probes, service, config, now, last_alert_time, health_status,
                   request_history, metrics_history, pc, requests, alerts,
                   logged, fired, trail, answers, cycles>>

BatchNext == AggregateBatch

BatchSpec == BatchInit /\ [][BatchNext]_vars

(***************************************************************************)
(* MonitoringLogger (src/logger.py): the records a call hands over, in     *)
(* order.  A message is its fixed text; console colours are left out.      *)
(***************************************************************************)
LogEntry(level, text) == [kind |-> "log", level |-> level, text |-> text]

\* level.upper()
Upper(level) ==
    CASE level = "warning"  -> "WARNING"
      [] level = "critical" -> "CRITICAL"
      [] OTHER              -> level

\* MonitoringLogger.log_metric
log_metric(metric_name, value, status, tags) ==
    <<[kind |-> "metric", metric |-> metric_name, value |-> value,
       status |-> status, tags |-> tags]>>

NoTags == <<>>

\* Mutant: the alert is written to the log only, not to the metrics file.
logger_alert_log_only(alert_type, message, level, value, threshold) ==
    <<[kind |-> "alert", type |-> alert_type, level |-> Upper(level),
       message |-> message, value |-> value, threshold |-> threshold]>>

\* MonitoringLogger.alert
logger_alert(alert_type, message, level, value, threshold) ==
    <<[kind |-> "alert", type |-> alert_type, level |-> Upper(level),
       message |-> message, value |-> value, threshold |-> threshold]>>
    \o log_metric("alert_" \o alert_type,
                  IF Upper(level) \in {"WARNING", "CRITICAL"}
                  THEN Num(1) ELSE Num(0),
                  level, [type |-> alert_type, message |-> message])

(***************************************************************************)
(* The probes.  A response is what the service answers to one request: a   *)
(* status with a body that is JSON or not, or no answer at all (timeout,   *)
(* connection refused), after a latency in milliseconds.                   *)
(***************************************************************************)
Response(status, json, latency) ==
    [kind |-> "response", status |-> status, json |-> json, latency |-> latency]

TransportError(latency) ==
    [kind |-> "error", status |-> 0, json |-> FALSE, latency |-> latency]

\* An exception leaving a try body or a function.
Raised(exception) == [raised |-> TRUE, exception |-> exception]

\* The body of check_health's try statement: session.get raises when no
\* answer comes, response.json() when the body of a 200 is not JSON.
check_health_try(resp) ==
    IF resp.kind = "error"
    THEN Raised("ClientError")
    ELSE IF resp.status = 200
    THEN IF resp.json
         THEN [raised |-> FALSE, ok |-> TRUE, response_time |-> resp.latency,
               logged |-> <<>>]
         ELSE Raised("ContentTypeError")
    ELSE [raised |-> FALSE, ok |-> FALSE, response_time |-> resp.latency,
          logged |-> <<LogEntry("WARNING", "Health check failed")>>]

\* Mutant: check_health without its "except Exception".
check_health_uncaught(resp) == check_health_try(resp)

\* ServiceMonitor.check_health
check_health(resp) ==
    LET r == check_health_try(resp)
    IN  IF r.raised
        THEN [raised |-> FALSE, ok |-> FALSE, response_time |-> resp.latency,
              logged |-> <<LogEntry("ERROR", "Health check error")>>]
        ELSE r

\* The body of perform_request's try statement (method GET): the body of
\* the response is not read.
perform_request_try(endpoint, resp) ==
    IF resp.kind = "error"
    THEN Raised("ClientError")
    ELSE [raised |-> FALSE,
          sample |-> RequestMetrics(endpoint, resp.latency, resp.status,
                                    resp.status < 400, now),
          logged |-> <<>>]

\* ServiceMonitor.perform_request (method GET)
perform_request(endpoint, resp) ==
    LET r == perform_request_try(endpoint, resp)
    IN  IF r.raised
        THEN [raised |-> FALSE,
              sample |-> RequestMetrics(endpoint, resp.latency, 0, FALSE, now),
              logged |-> <<LogEntry("ERROR", "Request failed")>>]
        ELSE r

\* The body of test_inference's try statement; has_fields: the JSON body
\* holds every expected field.
test_inference_try(resp, has_fields) ==
    IF resp.kind = "error"
    THEN Raised("ClientError")
    ELSE IF resp.status = 200
    THEN IF ~resp.json
         THEN Raised("ContentTypeError")
         ELSE IF has_fields
         THEN [raised |-> FALSE, ok |-> TRUE, response_time |-> resp.latency,
               logged |-> <<LogEntry("INFO", "Inference test passed")>>]
         ELSE [raised |-> FALSE, ok |-> FALSE, response_time |-> resp.latency,
               logged |-> <<LogEntry("WARNING",
                                     "Inference response missing fields")>>]
    ELSE [raised |-> FALSE, ok |-> FALSE, response_time |-> resp.latency,
          logged |-> <<LogEntry("ERROR", "Inference test failed")>>]

\* ServiceMonitor.test_inference; image_exists: the test image is on disk.
test_inference(resp, image_exists, has_fields) ==
    IF ~image_exists
    THEN [raised |-> FALSE, ok |-> FALSE, response_time |-> 0,
          logged |-> <<LogEntry("ERROR", "Test image not found")>>]
    ELSE LET r == test_inference_try(resp, has_fields)
         IN  IF r.raised
             THEN [raised |-> FALSE, ok |-> FALSE,
                   response_time |-> resp.latency,
                   logged |-> <<LogEntry("ERROR", "Inference test error")>>]
             ELSE r

(***************************************************************************)
(* The probes alone: each applied once to any answer of the service, with  *)
(* a 2xx other than 200, a redirect, client and server errors, bodies that *)
(* are JSON or not, and no answer at all.                                  *)
(***************************************************************************)
ProbeStatuses == {200, 204, 304, 404, 503}

ProbeLatencies == {100, 9000}

ProbeResponses ==
    {Response(status, json, l) :
        status \in ProbeStatuses, json \in BOOLEAN, l \in ProbeLatencies}
    \cup {TransportError(l) : l \in ProbeLatencies}

ProbeInit ==
    /\ service \in {<<{resp}>> : resp \in ProbeResponses}
    /\ config = DefaultConfig
    /\ now = 0
    /\ consecutive_failures = 0
    /\ last_alert_time = <<>>
    /\ health_status = FALSE
    /\ request_history = <<>>
    /\ metrics_history = <<>>
    /\ pc = "probe"
    /\ requests = <<>>
    /\ metrics = <<>>
    /\ alerts = <<>>
    /\ logged = <<>>
    /\ call = NoCall
    /\ fired = <<>>
    /\ trail = <<>>
    /\ answers = <<>>
    /\ cycles = 0
    /\ probes = <<>>

\* One call check_health().
CheckHealthCall ==
    /\ call = NoCall
    /\ \E resp \in service[1] :
        LET r == check_health(resp)
        IN  /\ call' = [op |-> "check_health", resp |-> resp, result |-> r]
            /\ logged' = IF r.raised THEN logged ELSE r.logged
    /\ UNCHANGED <<probes, service, config, now, consecutive_failures,
                   last_alert_time, health_status, request_history,
                   metrics_history, pc, requests, metrics, alerts, fired,
                   trail, answers, cycles>>

\* One call perform_request(endpoints['health']).
PerformRequestCall ==
    /\ call = NoCall
    /\ \E resp \in service[1] :
        LET r == perform_request(HealthEndpoint, resp)
        IN  /\ call' = [op |-> "perform_request", resp |-> resp, result |-> r]
            /\ logged' = IF r.raised THEN logged ELSE r.logged
    /\ UNCHANGED <<probes, service, config, now, consecutive_failures,
                   last_alert_time, health_status, request_history,
                   metrics_history, pc, requests, metrics, alerts, fired,
                   trail, answers, cycles>>

\* One call test_inference(), the test image on disk or not, the body with
\* the expected fields or not.
TestInferenceCall ==
    /\ call = NoCall
    /\ \E resp \in service[1], image_exists \in BOOLEAN, has_fields \in BOOLEAN :
        LET r == test_inference(resp, image_exists, has_fields)
        IN  /\ call' = [op |-> "test_inference", resp |-> resp,
                        image_exists |-> image_exists,
                        has_fields |-> has_fields, result |-> r]
            /\ logged' = IF r.raised THEN logged ELSE r.logged
    /\ UNCHANGED <<probes, service, config, now, consecutive_failures,
                   last_alert_time, health_status, request_history,
                   metrics_history, pc, requests, metrics, alerts, fired,
                   trail, answers, cycles>>

ProbeNext == CheckHealthCall \/ PerformRequestCall \/ TestInferenceCall

ProbeSpec == ProbeInit /\ [][ProbeNext]_vars

(***************************************************************************)
(* ServiceMonitor.log_metrics                                              *)
(***************************************************************************)
\* Mutant: an unhealthy service makes the overall status critical.
overall_status_with_health(m) ==
    LET t == config.thresholds
    IN  IF ~m.health_status \/ Gt(m.error_rate, t.error_rate_percent.critical)
        THEN "critical"
        ELSE IF \/ Gt(m.response_time_avg, t.response_time_ms.critical)
                \/ m.consecutive_failures >= t.consecutive_failures.critical
        THEN "critical"
        ELSE IF Gt(m.error_rate, t.error_rate_percent.warning)
        THEN "warning"
        ELSE IF \/ Gt(m.response_time_avg, t.response_time_ms.warning)
                \/ m.consecutive_failures >= t.consecutive_failures.warning
        THEN "warning"
        ELSE "normal"

overall_status(m) ==
    LET t == config.thresholds
    IN  IF Gt(m.error_rate, t.error_rate_percent.critical)
        THEN "critical"
        ELSE IF \/ Gt(m.response_time_avg, t.response_time_ms.critical)
                \/ m.consecutive_failures >= t.consecutive_failures.critical
        THEN "critical"
        ELSE IF Gt(m.error_rate, t.error_rate_percent.warning)
        THEN "warning"
        ELSE IF \/ Gt(m.response_time_avg, t.response_time_ms.warning)
                \/ m.consecutive_failures >= t.consecutive_failures.warning
        THEN "warning"
        ELSE "normal"

\* Mutant: the metric records are written only when a threshold is crossed.
log_metrics_when_breached(m) ==
    IF overall_status(m) = "normal"
    THEN <<LogEntry("INFO", "Metrics")>>
    ELSE log_metric("response_time_avg", m.response_time_avg, overall_status(m), NoTags)
         \o log_metric("response_time_p95", m.response_time_p95, overall_status(m), NoTags)
         \o log_metric("error_rate", m.error_rate, overall_status(m), NoTags)
         \o log_metric("consecutive_failures", Num(m.consecutive_failures),
                       overall_status(m), NoTags)
         \o log_metric("health_status",
                       IF m.health_status THEN Num(1) ELSE Num(0),
                       IF m.health_status THEN "normal" ELSE "critical", NoTags)
         \o <<LogEntry("INFO", "Metrics")>>

log_metrics(m) ==
    log_metric("response_time_avg", m.response_time_avg, overall_status(m), NoTags)
    \o log_metric("response_time_p95", m.response_time_p95, overall_status(m), NoTags)
    \o log_metric("error_rate", m.error_rate, overall_status(m), NoTags)
    \o log_metric("consecutive_failures", Num(m.consecutive_failures),
                  overall_status(m), NoTags)
    \o log_metric("health_status",
                  IF m.health_status THEN Num(1) ELSE Num(0),
                  IF m.health_status THEN "normal" ELSE "critical", NoTags)
    \o <<LogEntry("INFO", "Metrics")>>

(***************************************************************************)
(* check_thresholds and then log_metrics applied to any snapshot under any *)
(* thresholds, as monitoring_cycle applies them to its snapshot.           *)
(***************************************************************************)
\* One call log_metrics(metrics), after check_thresholds.
LogMetricsCall ==
    /\ call.op = "check_thresholds"
    /\ logged' = log_metrics(metrics)
    /\ call' = [op |-> "log_metrics"]
    /\ UNCHANGED <<probes, service, config, now, consecutive_failures,
                   last_alert_time, health_status, request_history,
                   metrics_history, pc, requests, metrics, alerts, fired,
                   trail, answers, cycles>>

StatusNext == CheckThresholdsCall \/ LogMetricsCall

StatusSpec == ThresholdsInit /\ [][StatusNext]_vars

(***************************************************************************)
(* ServiceMonitor._cleanup_old_data                                        *)
(***************************************************************************)
RetentionMinutes == 60

\* Mutant: an entry exactly one hour old is kept.
cleanup_old_data_inclusive(history) ==
    SelectSeq(history, LAMBDA e : e.timestamp >= now - RetentionMinutes)

cleanup_old_data(history) ==
    SelectSeq(history, LAMBDA e : e.timestamp > now - RetentionMinutes)

(***************************************************************************)
(* start_monitoring and monitoring_cycle: the monitor after construction,  *)
(* cycle after cycle, against a service that answers each probe as it      *)
(* likes.                                                                  *)
(***************************************************************************)
Latencies == {100, 9000}

RequestResponses ==
    {Response(200, TRUE, l) : l \in Latencies}
    \cup {Response(503, TRUE, 100), TransportError(9000)}

HealthResponses == RequestResponses \cup {Response(200, FALSE, 100)}

\* What the service answers to the inference test: a prediction, or nothing.
InferenceResponses == {Response(200, TRUE, 100), TransportError(9000)}

\* A service that answers every probe as it likes: the first probe of a
\* cycle is check_health's, the others are perform_request's.
AnyService(n) ==
    [k \in 1..n |-> IF k = 1 THEN HealthResponses ELSE RequestResponses]

\* Minutes that may pass while the monitor sleeps between two cycles.
SleepMinutes ==
    {0, DefaultCooldownMinutes, RetentionMinutes,
     RetentionMinutes + DefaultCooldownMinutes}

\* The default configuration with one or two samples per check, alerting enabled
\* or not, the inference test every 5 minutes or with an interval of 0
\* (the YAML value is not validated).
CycleConfigs ==
    {[DefaultConfig EXCEPT !.monitoring.samples_per_check = n,
                           !.monitoring.inference_test_interval_minutes = i,
                           !.alerts.enabled = e] :
        n \in 1..2, e \in BOOLEAN, i \in {0, DefaultInferenceInterval}}

\* What the alert loop and log_metrics handed to the logger.
Emitted(q, kind) == SelectSeq(q, LAMBDA e : e.kind = kind)

Init ==
    /\ config \in CycleConfigs
    /\ service = AnyService(config.monitoring.samples_per_check)
    /\ now = 0
    /\ consecutive_failures = 0
    /\ last_alert_time = <<>>
    /\ health_status = FALSE
    /\ request_history = <<>>
    /\ metrics_history = <<>>
    /\ pc = "idle"
    /\ requests = <<>>
    /\ metrics = <<>>
    /\ alerts = <<>>
    /\ logged = <<>>
    /\ call = NoCall
    /\ fired = <<>>
    /\ trail = <<>>
    /\ answers = <<>>
    /\ cycles = 0
    /\ probes = <<>>

\* Mutant: the health probe is not put in the batch as a sample.
CheckHealthUnsampled ==
    /\ pc = "idle"
    /\ cycles < MaxCycles
    /\ \E resp \in service[1] :
        LET h == check_health(resp)
        IN  /\ health_status' = h.ok
            /\ requests' = <<>>
            /\ logged' = <<LogEntry("INFO", "monitoring cycle started")>>
                             \o h.logged
            /\ probes' = <<[op |-> "check_health", resp |-> resp,
                            endpoint |-> HealthEndpoint, ok |-> h.ok]>>
    /\ pc' = IF config.monitoring.samples_per_check - 1 > 0
             THEN "probing" ELSE "aggregate"
    /\ cycles' = cycles + 1
    /\ UNCHANGED <<service, config, now, consecutive_failures, last_alert_time,
                   request_history, metrics_history, metrics, alerts, call,
                   fired, trail, answers>>

\* Mutant: the result of the health probe is not stored in the monitor.
CheckHealthStale ==
    /\ pc = "idle"
    /\ cycles < MaxCycles
    /\ \E resp \in service[1] :
        LET h == check_health(resp)
        IN  /\ health_status' = health_status
            /\ requests' = <<RequestMetrics(HealthEndpoint, h.response_time,
                                            IF h.ok THEN 200 ELSE 500,
                                            h.ok, now)>>
            /\ logged' = <<LogEntry("INFO", "monitoring cycle started")>>
                             \o h.logged
            /\ probes' = <<[op |-> "check_health", resp |-> resp,
                            endpoint |-> HealthEndpoint, ok |-> h.ok]>>
    /\ pc' = IF config.monitoring.samples_per_check - 1 > 0
             THEN "probing" ELSE "aggregate"
    /\ cycles' = cycles + 1
    /\ UNCHANGED <<service, config, now, consecutive_failures, last_alert_time,
                   request_history, metrics_history, metrics, alerts, call,
                   fired, trail, answers>>

\* monitoring_cycle up to the health sample: the health probe, once.
CheckHealth ==
    /\ pc = "idle"
    /\ cycles < MaxCycles
    /\ \E resp \in service[1] :
        LET h == check_health(resp)
        IN  /\ health_status' = h.ok
            /\ requests' = <<RequestMetrics(HealthEndpoint, h.response_time,
                                            IF h.ok THEN 200 ELSE 500,
                                            h.ok, now)>>
            /\ logged' = <<LogEntry("INFO", "monitoring cycle started")>>
                             \o h.logged
            /\ probes' = <<[op |-> "check_health", resp |-> resp,
                            endpoint |-> HealthEndpoint, ok |-> h.ok]>>
    /\ pc' = IF config.monitoring.samples_per_check - 1 > 0
             THEN "probing" ELSE "aggregate"
    /\ cycles' = cycles + 1
    /\ UNCHANGED <<service, config, now, consecutive_failures, last_alert_time,
                   request_history, metrics_history, metrics, alerts, call,
                   fired, trail, answers>>

\* Mutant: a failed probe is attempted again, its sample thrown away.
PerformRequestRetrying ==
    /\ pc = "probing"
    /\ \E resp \in service[Len(requests) + 1] :
        LET p == perform_request(HealthEndpoint, resp)
        IN  /\ requests' = IF p.sample.success
                           THEN Append(requests, p.sample) ELSE requests
            /\ logged' = logged \o p.logged
            /\ probes' = Append(probes,
                                [op |-> "perform_request", resp |-> resp,
                                 endpoint |-> HealthEndpoint,
                                 ok |-> p.sample.success])
            /\ pc' = IF Len(requests') >= config.monitoring.samples_per_check
                     THEN "aggregate" ELSE "probing"
    /\ UNCHANGED <<service, config, now, consecutive_failures, last_alert_time,
                   health_status, request_history, metrics_history, metrics,
                   alerts, call, fired, trail, answers, cycles>>

\* One turn of the loop over range(samples_per_check - 1).
PerformRequest ==
    /\ pc = "probing"
    /\ \E resp \in service[Len(requests) + 1] :
        LET p == perform_request(HealthEndpoint, resp)
        IN  /\ requests' = Append(requests, p.sample)
            /\ logged' = logged \o p.logged
            /\ probes' = Append(probes,
                                [op |-> "perform_request", resp |-> resp,
                                 endpoint |-> HealthEndpoint,
                                 ok |-> p.sample.success])
    /\ pc' = IF Len(requests) + 1 >= config.monitoring.samples_per_check
             THEN "aggregate" ELSE "probing"
    /\ UNCHANGED <<service, config, now, consecutive_failures, last_alert_time,
                   health_status, request_history, metrics_history, metrics,
                   alerts, call, fired, trail, answers, cycles>>

\* Mutant: the samples of the cycle are kept in request_history.
AggregateStoringSamples ==
    /\ pc = "aggregate"
    /\ LET r == calculate_metrics(requests)
       IN  /\ metrics' = r.metrics
           /\ consecutive_failures' = r.consecutive_failures
           /\ metrics_history' = Append(metrics_history, r.metrics)
           /\ alerts' = check_thresholds(r.metrics)
    /\ request_history' = request_history \o requests
    /\ pc' = "alerting"
    /\ UNCHANGED <<probes, service, config, now, last_alert_time,
                   health_status, requests, logged, call, fired, trail,
                   answers, cycles>>

\* calculate_metrics, the snapshot stored, check_thresholds.
Aggregate ==
    /\ pc = "aggregate"
    /\ LET r == calculate_metrics(requests)
       IN  /\ metrics' = r.metrics
           /\ consecutive_failures' = r.consecutive_failures
           /\ metrics_history' = Append(metrics_history, r.metrics)
           /\ alerts' = check_thresholds(r.metrics)
    /\ pc' = "alerting"
    /\ UNCHANGED <<probes, service, config, now, last_alert_time, health_status,
                   request_history, requests, logged, call, fired, trail,
                   answers, cycles>>

\* Mutant: the alert is emitted whatever should_alert answers.
EmitAlertUngated(alert, ret) ==
    logger_alert(alert.type, alert.message, alert.level, alert.value,
                 alert.threshold)

\* The body of the loop over the alerts, given should_alert's answer.
EmitAlert(alert, ret) ==
    IF ret
    THEN logger_alert(alert.type, alert.message, alert.level, alert.value,
                      alert.threshold)
    ELSE <<>>

\* One turn of the loop over the candidate alerts.
Alerting ==
    /\ pc = "alerting"
    /\ Len(answers) < Len(alerts)
    /\ LET alert == alerts[Len(answers) + 1]
           r == should_alert(alert.type, alert.level)
       IN  /\ last_alert_time' = r.last_alert_time
           /\ answers' = Append(answers, r.ret)
           /\ logged' = logged \o EmitAlert(alert, r.ret)
           /\ fired' = IF r.ret
                       THEN (<<alert.type, alert.level>> :> now) @@ fired
                       ELSE fired
    /\ UNCHANGED <<probes, service, config, now, consecutive_failures, health_status,
                   request_history, metrics_history, pc, requests, metrics,
                   alerts, call, trail, cycles>>

\* Mutant: log_metrics is called before the loop over the alerts is done.
LogMetricsEarly ==
    /\ pc = "alerting"
    /\ logged' = logged \o log_metrics(metrics)
    /\ trail' = Remember(trail,
                         [cycle |-> cycles, at |-> now,
                          alerts |-> Emitted(logged, "alert"),
                          metrics |-> Emitted(log_metrics(metrics), "metric")])
    /\ pc' = "inference"
    /\ UNCHANGED <<probes, service, config, now, consecutive_failures,
                   last_alert_time, health_status, request_history,
                   metrics_history, requests, metrics, alerts, call, fired,
                   answers, cycles>>

\* log_metrics, once the loop over the alerts is done.
LogMetrics ==
    /\ pc = "alerting"
    /\ Len(answers) = Len(alerts)
    /\ logged' = logged \o log_metrics(metrics)
    /\ trail' = Remember(trail,
                         [cycle |-> cycles, at |-> now,
                          alerts |-> Emitted(logged, "alert"),
                          metrics |-> Emitted(log_metrics(metrics), "metric")])
    /\ pc' = "inference"
    /\ UNCHANGED <<probes, service, config, now, consecutive_failures, last_alert_time,
                   health_status, request_history, metrics_history, requests,
                   metrics, alerts, call, fired, answers, cycles>>

\* The inference test, when enabled and the minute is a multiple of the
\* interval.  With an interval of 0 the "%" raises ZeroDivisionError: it
\* leaves monitoring_cycle and the "while True" of start_monitoring, whose
\* "except Exception" logs it, and start_monitoring returns.
InferenceTest ==
    /\ pc = "inference"
    /\ LET interval == config.monitoring.inference_test_interval_minutes
           current_minute == now % 60
       IN  IF ~config.inference_test.enabled
           THEN pc' = "cleanup" /\ logged' = logged /\ call' = call
           ELSE IF interval = 0
           THEN /\ pc' = "stopped"
                /\ logged' = Append(logged, LogEntry("ERROR", "monitoring error"))
                /\ call' = [op |-> "except", exception |-> "ZeroDivisionError"]
           ELSE IF current_minute % interval = 0
           THEN /\ pc' = "cleanup"
                /\ call' = call
                /\ \E resp \in InferenceResponses :
                     LET t == test_inference(resp, TRUE, TRUE)
                     IN  logged' =
                             logged
                             \o <<LogEntry("INFO", "inference test started")>>
                             \o t.logged
                             \o (IF t.ok
                                 THEN log_metric("inference_time",
                                                 Num(t.response_time),
                                                 "normal", NoTags)
                                 ELSE log_metric("inference_failure", Num(1),
                                                 "critical", NoTags))
           ELSE pc' = "cleanup" /\ logged' = logged /\ call' = call
    /\ UNCHANGED <<probes, service, config, now, consecutive_failures, last_alert_time,
                   health_status, request_history, metrics_history, requests,
                   metrics, alerts, fired, trail, answers, cycles>>

\* _cleanup_old_data, then monitoring_cycle returns.
Cleanup ==
    /\ pc = "cleanup"
    /\ request_history' = cleanup_old_data(request_history)
    /\ metrics_history' = cleanup_old_data(metrics_history)
    /\ pc' = "sleep"
    /\ UNCHANGED <<probes, service, config, now, consecutive_failures, last_alert_time,
                   health_status, requests, metrics, alerts, logged, call,
                   fired, trail, answers, cycles>>

\* asyncio.sleep(check_interval_seconds), then the loop turns; the locals
\* of the cycle that returned are gone, and logged starts anew.
Sleep ==
    /\ pc = "sleep"
    /\ \E d \in SleepMinutes : now' = now + d
    /\ pc' = "idle"
    /\ requests' = <<>>
    /\ metrics' = <<>>
    /\ alerts' = <<>>
    /\ answers' = <<>>
    /\ logged' = <<>>
    /\ probes' = <<>>
    /\ UNCHANGED <<service, config, consecutive_failures, last_alert_time,
                   health_status, request_history, metrics_history, call,
                   fired, trail, cycles>>

\* The operator's interrupt while the monitor sleeps: "except
\* KeyboardInterrupt" logs it and start_monitoring returns.
Interrupt ==
    /\ pc = "sleep"
    /\ pc' = "stopped"
    /\ logged' = Append(logged, LogEntry("INFO", "monitoring stopped by user"))
    /\ call' = [op |-> "except", exception |-> "KeyboardInterrupt"]
    /\ UNCHANGED <<probes, service, config, now, consecutive_failures, last_alert_time,
                   health_status, request_history, metrics_history, requests,
                   metrics, alerts, fired, trail, answers, cycles>>

Next ==
    \/ CheckHealth
    \/ PerformRequest
    \/ Aggregate
    \/ Alerting
    \/ LogMetrics
    \/ InferenceTest
    \/ Cleanup
    \/ Sleep
    \/ Interrupt

Spec == Init /\ [][Next]_vars

(***************************************************************************)
(* The monitor under its default configuration (three samples per check)   *)
(* against a healthy service whose three answers of a cycle take 100, 200  *)
(* and 9000 ms, in an order that is the same in every cycle.               *)
(***************************************************************************)
ScenarioLatencies == <<100, 200, 9000>>

ScenarioServices ==
    {[k \in 1..3 |-> {Response(200, TRUE, ScenarioLatencies[p[k]])}] :
        p \in Permutations(1..3)}

ScenarioInit ==
    /\ config = DefaultConfig
    /\ service \in ScenarioServices
    /\ now = 0
    /\ consecutive_failures = 0
    /\ last_alert_time = <<>>
    /\ health_status = FALSE
    /\ request_history = <<>>
    /\ metrics_history = <<>>
    /\ pc = "idle"
    /\ requests = <<>>
    /\ metrics = <<>>
    /\ alerts = <<>>
    /\ logged = <<>>
    /\ call = NoCall
    /\ fired = <<>>
    /\ trail = <<>>
    /\ answers = <<>>
    /\ cycles = 0
    /\ probes = <<>>

ScenarioSpec == ScenarioInit /\ [][Next]_vars

(***************************************************************************)
(* Claims about the gate, under GateSpec.                                  *)
(***************************************************************************)
Called == call.op = "should_alert"

CallKey == AlertKey(call.alert_type, call.level)

CallPair == <<call.alert_type, call.level>>

Cooldown == config.alerts.cooldown_minutes

\* C1: with alerting enabled and a clock that never runs backwards, a call
\* that answers true for an alert comes at least cooldown_minutes after the
\* previous call that answered true for the same (type, level); as the clock
\* is monotone, any two such calls are then at least a cooldown apart.
C1_CooldownSpacing ==
    (Called /\ config.alerts.enabled /\ call.ret
        /\ CallPair \in DOMAIN call.pre_fired)
    => call.at - call.pre_fired[CallPair] >= Cooldown

\* A second true answer for an alert, exactly one positive cooldown after
\* the first.
C1_Witness ==
    /\ Called /\ call.ret /\ Cooldown > 0
    /\ CallPair \in DOMAIN call.pre_fired
    /\ call.at - call.pre_fired[CallPair] = Cooldown

\* C2: with alerting enabled, a call for a key that never fired answers
\* true and records now; a call less than the cooldown after the key's last
\* firing answers false; a call at least the cooldown after it answers true
\* and records now.
C2_GateAnswers ==
    (Called /\ config.alerts.enabled) =>
        IF CallKey \notin DOMAIN call.pre
        THEN call.ret /\ CallKey \in DOMAIN last_alert_time
                      /\ last_alert_time[CallKey] = call.at
        ELSE IF call.at - call.pre[CallKey] < Cooldown
        THEN ~call.ret
        ELSE call.ret /\ last_alert_time[CallKey] = call.at

\* A key that fired before fires again in a call made once its positive
\* cooldown has elapsed, and its timestamp moves to the time of that call.
C2_Witness ==
    /\ Called /\ config.alerts.enabled /\ call.ret /\ Cooldown > 0
    /\ CallKey \in DOMAIN call.pre
    /\ call.pre[CallKey] < call.at
    /\ last_alert_time[CallKey] = call.at

\* C3: a call that answers false leaves last_alert_time as it was, and with
\* alerting disabled every call answers false and the map stays empty.
C3_SuppressedLeavesMap ==
    Called =>
        /\ ~call.ret => last_alert_time = call.pre
        /\ ~config.alerts.enabled => ~call.ret /\ last_alert_time = <<>>

\* A suppressed call made later than the key's recorded firing: a refresh
\* would have moved the timestamp.
C3_Witness ==
    /\ Called /\ config.alerts.enabled /\ ~call.ret
    /\ CallKey \in DOMAIN call.pre
    /\ call.pre[CallKey] < call.at
    /\ last_alert_time = call.pre

\* C4: the answer for (type, level) is decided by the earlier firings of
\* that same pair alone, whatever other alerts fired, and a call changes no
\* entry of the map but that of its own key; distinct pairs have distinct
\* keys.
C4_IndependentTimers ==
    /\ \A t1 \in AlertTypes, t2 \in AlertTypes, l1 \in Levels, l2 \in Levels :
           AlertKey(t1, l1) = AlertKey(t2, l2) => (t1 = t2 /\ l1 = l2)
    /\ (Called /\ config.alerts.enabled) =>
           /\ call.ret <=> (\/ CallPair \notin DOMAIN call.pre_fired
                            \/ call.at - call.pre_fired[CallPair] >= Cooldown)
           /\ \A k \in (DOMAIN call.pre \cup DOMAIN last_alert_time) \ {CallKey} :
                  /\ k \in DOMAIN call.pre
                  /\ k \in DOMAIN last_alert_time
                  /\ last_alert_time[k] = call.pre[k]

\* A critical alert fires inside the cooldown of the warning of the same
\* dimension.
C4_Witness ==
    /\ Called /\ call.ret /\ call.level = "critical"
    /\ <<call.alert_type, "warning">> \in DOMAIN call.pre_fired
    /\ call.at - call.pre_fired[<<call.alert_type, "warning">>] < Cooldown
    /\ AlertKey(call.alert_type, "warning") \in DOMAIN last_alert_time

(***************************************************************************)
(* Claims about check_thresholds, under ThresholdsSpec.                    *)
(***************************************************************************)
Evaluated == call.op = "check_thresholds"

NumericTypes ==
    {"response_time", "p95_latency", "error_rate", "consecutive_failures"}

ContinuousTypes == {"response_time", "p95_latency", "error_rate"}

\* The alerts of one dimension, in the order returned.
OfType(type) == SelectSeq(alerts, LAMBDA a : a.type = type)

HasAlert(type, level) ==
    \E i \in 1..Len(alerts) : alerts[i].type = type /\ alerts[i].level = level

\* The snapshot's reading of a continuous dimension and the configured pair
\* of a numeric dimension.
Reading(type) ==
    CASE type = "response_time" -> metrics.response_time_avg
      [] type = "p95_latency"   -> metrics.response_time_p95
      [] type = "error_rate"    -> metrics.error_rate

PairOf(type) ==
    CASE type = "response_time"        -> config.thresholds.response_time_ms
      [] type = "p95_latency"          -> config.thresholds.p95_latency_ms
      [] type = "error_rate"           -> config.thresholds.error_rate_percent
      [] type = "consecutive_failures" -> config.thresholds.consecutive_failures

\* The snapshot crosses the threshold of a level: strictly above it for a
\* continuous dimension, at or above it for the consecutive failures.
Crosses(type, level) ==
    IF type = "consecutive_failures"
    THEN metrics.consecutive_failures >= PairOf(type)[level]
    ELSE Gt(Reading(type), PairOf(type)[level])

\* C6: for every snapshot and every pair of thresholds, each numeric
\* dimension has exactly one alert, a critical one, when the critical
\* threshold is crossed, otherwise exactly one warning when the warning
\* threshold is crossed, otherwise none: never a warning beside a critical.
C6_OneAlertPerDimension ==
    Evaluated =>
        \A type \in NumericTypes :
            LET s == OfType(type)
            IN  IF Crosses(type, "critical")
                THEN Len(s) = 1 /\ s[1].level = "critical"
                ELSE IF Crosses(type, "warning")
                THEN Len(s) = 1 /\ s[1].level = "warning"
                ELSE Len(s) = 0

\* The warning threshold lies above the critical one, the average latency
\* is above both, and the dimension has its one alert.
C6_Witness ==
    /\ Evaluated
    /\ config.thresholds.response_time_ms.warning
           > config.thresholds.response_time_ms.critical
    /\ Gt(metrics.response_time_avg, config.thresholds.response_time_ms.warning)
    /\ Len(OfType("response_time")) = 1

\* C7 as stated: a consecutive-failure count equal to its warning (critical)
\* threshold has the warning (critical) alert, and a continuous reading
\* equal to a threshold has no alert of that level.
C7_AsStated ==
    Evaluated =>
        /\ \A level \in Levels :
               metrics.consecutive_failures
                       = config.thresholds.consecutive_failures[level]
                   => HasAlert("consecutive_failures", level)
        /\ \A type \in ContinuousTypes, level \in Levels :
               Eq(Reading(type), PairOf(type)[level]) => ~HasAlert(type, level)

\* C7, amended: a consecutive-failure count equal to its critical threshold
\* has the critical alert; one equal to its warning threshold and below the
\* critical threshold has the warning alert; a continuous reading equal to
\* a threshold has no alert of that level.
C7_BoundaryComparisons ==
    Evaluated =>
        /\ metrics.consecutive_failures
                   = config.thresholds.consecutive_failures.critical
               => HasAlert("consecutive_failures", "critical")
        /\ (/\ metrics.consecutive_failures
                   = config.thresholds.consecutive_failures.warning
            /\ metrics.consecutive_failures
                   < config.thresholds.consecutive_failures.critical)
               => HasAlert("consecutive_failures", "warning")
        /\ \A type \in ContinuousTypes, level \in Levels :
               Eq(Reading(type), PairOf(type)[level]) => ~HasAlert(type, level)

\* The failure count sits on its warning threshold, below the critical one,
\* and is alerted, while the error rate sits on its warning threshold and is
\* not.
C7_Witness ==
    /\ Evaluated
    /\ metrics.consecutive_failures
           = config.thresholds.consecutive_failures.warning
    /\ metrics.consecutive_failures
           < config.thresholds.consecutive_failures.critical
    /\ HasAlert("consecutive_failures", "warning")
    /\ Eq(metrics.error_rate, config.thresholds.error_rate_percent.warning)
    /\ OfType("error_rate") = <<>>

\* C8: the result holds exactly one health_status alert, critical with
\* value 0 and threshold 1, when the snapshot's health_status is false, and
\* none when it is true, whatever the thresholds and the other readings.
C8_HealthAlert ==
    Evaluated =>
        LET s == OfType("health_status")
        IN  IF metrics.health_status
            THEN s = <<>>
            ELSE /\ Len(s) = 1
                 /\ s[1].level = "critical"
                 /\ s[1].value = Num(0)
                 /\ s[1].threshold = Num(1)

\* An unhealthy snapshot whose other readings cross no threshold: the
\* health alert is the only alert.
C8_Witness ==
    /\ Evaluated
    /\ ~metrics.health_status
    /\ metrics.error_rate = Num(0)
    /\ Len(alerts) = 1
    /\ alerts[1].type = "health_status"

Rank(type) ==
    CASE type = "response_time"        -> 1
      [] type = "p95_latency"          -> 2
      [] type = "error_rate"           -> 3
      [] type = "consecutive_failures" -> 4
      [] type = "health_status"        -> 5

DimensionOrder ==
    <<"response_time", "p95_latency", "error_rate", "consecutive_failures",
      "health_status">>

\* The dimensions that have an alert for the snapshot under the thresholds.
Alerted(type) ==
    IF type = "health_status"
    THEN ~metrics.health_status
    ELSE Crosses(type, "critical") \/ Crosses(type, "warning")

\* C9: the alerts come in the order response_time, p95_latency, error_rate,
\* consecutive_failures, health_status, the dimensions without an alert left
\* out; the dimensions listed are those the snapshot and the thresholds
\* call for, whatever the monitor's own state.
C9_FixedOrder ==
    Evaluated =>
        /\ \A i \in 1..Len(alerts), j \in 1..Len(alerts) :
               i < j => Rank(alerts[i].type) < Rank(alerts[j].type)
        /\ [i \in 1..Len(alerts) |-> alerts[i].type]
               = SelectSeq(DimensionOrder, Alerted)

\* All five dimensions are alerted at once.
C9_Witness ==
    /\ Evaluated
    /\ Len(alerts) = 5
    /\ alerts[1].type = "response_time"
    /\ alerts[5].type = "health_status"

(***************************************************************************)
(* Claims about the overall status, under StatusSpec.                      *)
(***************************************************************************)
\* The dimensions the overall status is made of.
OverallTypes == {"response_time", "error_rate", "consecutive_failures"}

\* The status log_metrics wrote on its first record.
OverallStatus == logged[1].status

\* C24: the overall status is critical exactly when the average latency or
\* the error rate is above, or the consecutive failures at or above, its
\* critical threshold; otherwise warning exactly when one of the three
\* crosses its warning threshold; otherwise normal.  A critical alert of
\* one of the three makes it critical, warnings alone make it warning, and
\* neither the p95 latency nor the health status changes it.
C24_OverallStatus ==
    call.op = "log_metrics" =>
        LET critical == \E d \in OverallTypes : Crosses(d, "critical")
            warning == \E d \in OverallTypes : Crosses(d, "warning")
        IN  /\ OverallStatus =
                   IF critical THEN "critical"
                   ELSE IF warning THEN "warning"
                   ELSE "normal"
            /\ (\E d \in OverallTypes : HasAlert(d, "critical"))
                   => OverallStatus = "critical"
            /\ (/\ \E d \in OverallTypes : HasAlert(d, "warning")
                /\ \A d \in OverallTypes : ~HasAlert(d, "critical"))
                   => OverallStatus = "warning"
            /\ \A p95 \in 0..MaxValue, h \in BOOLEAN :
                   log_metrics([metrics EXCEPT
                                   !.response_time_p95 = Num(p95),
                                   !.health_status = h])[1].status
                       = OverallStatus

\* The p95 latency is critical and the service unhealthy while the three
\* other dimensions are quiet: the overall status is normal.
C24_Witness ==
    /\ call.op = "log_metrics"
    /\ HasAlert("p95_latency", "critical")
    /\ HasAlert("health_status", "critical")
    /\ Len(alerts) = 2
    /\ OverallStatus = "normal"

(***************************************************************************)
(* Claims about calculate_metrics, under AggregateSpec.                    *)
(***************************************************************************)
Aggregated == call.op = "calculate_metrics"

\* C5: after the batch of a monitoring cycle (which holds at least the
\* health sample) is aggregated, the counter is the counter before plus the
\* batch's failed samples when there are some, and 0 when there are none,
\* and the snapshot returned carries that value; failure counts 2, 0, 3 from
\* a counter of 0 leave the counters 2, 0, 3.
C5_CounterRule ==
    /\ (Aggregated /\ requests # <<>>) =>
           /\ consecutive_failures =
                  IF FailedCount(requests) > 0
                  THEN call.before + FailedCount(requests)
                  ELSE 0
           /\ metrics.consecutive_failures = consecutive_failures
    /\ (/\ Len(trail) = 3
        /\ \A i \in 1..3 : trail[i].total > 0
        /\ trail[1].failed = 2 /\ trail[1].counter = 2
        /\ trail[2].failed = 0
        /\ trail[3].failed = 3)
           => trail[2].counter = 0 /\ trail[3].counter = 3

\* Three batches in a row with 2, 0 and 3 failed samples, the first from a
\* counter of 0, have left the counters 2, 0 and 3.
C5_Witness ==
    /\ Aggregated
    /\ Len(trail) = 3
    /\ \A i \in 1..3 : trail[i].total = 3
    /\ <<trail[1].failed, trail[2].failed, trail[3].failed>> = <<2, 0, 3>>
    /\ <<trail[1].counter, trail[2].counter, trail[3].counter>> = <<2, 0, 3>>
    /\ consecutive_failures = 3
    /\ metrics.consecutive_failures = 3

\* C15: the snapshot of any batch, the empty one included, has
\* total_requests = successful_requests + failed_requests, the three being
\* the numbers of samples, of successful ones and of failed ones.
C15_TotalIsSum ==
    Aggregated =>
        /\ metrics.total_requests =
               metrics.successful_requests + metrics.failed_requests
        /\ metrics.total_requests = Len(requests)
        /\ metrics.failed_requests = FailedCount(requests)

\* A batch of one successful and two failed samples was aggregated.
C15_Witness ==
    /\ Aggregated
    /\ metrics.total_requests = 3
    /\ metrics.successful_requests = 1
    /\ metrics.failed_requests = 2

C23_AsStated ==
    (Aggregated /\ FailedCount(requests) = 0) =>
        /\ consecutive_failures = 0
        /\ metrics.consecutive_failures = 0

\* An empty batch was aggregated when the counter was 2: the counter and
\* the snapshot still say 2.
C23_Witness ==
    /\ Aggregated
    /\ requests = <<>>
    /\ call.before = 2
    /\ consecutive_failures = 2
    /\ metrics.consecutive_failures = 2
    /\ metrics.total_requests = 0

(***************************************************************************)
(* Claims about calculate_metrics on large batches, under BatchSpec.       *)
(***************************************************************************)
\* The latencies of the successful samples of the batch, in batch order.
SuccessLatencies(reqs) ==
    LET ok == SelectSeq(reqs, LAMBDA r : r.success)
    IN  [i \in 1..Len(ok) |-> ok[i].response_time]

\* How many of the latencies q are below v, and at most v.
Below(q, v) == Cardinality({i \in 1..Len(q) : q[i] < v})

AtMost(q, v) == Cardinality({i \in 1..Len(q) : q[i] <= v})

\* v stands at the 0-based index k of q sorted ascending.
AtSortedIndex(q, k, v) ==
    /\ \E i \in 1..Len(q) : q[i] = v
    /\ Below(q, v) <= k
    /\ k < AtMost(q, v)

Min(a, b) == IF a <= b THEN a ELSE b

\* floor(0.95 n): the integer k with k <= 0.95 n < k + 1.
Floor95(n) == CHOOSE k \in 0..n : 100 * k <= 95 * n /\ 95 * n < 100 * (k + 1)

\* C17: with n >= 1 successful samples the p95 is the element at the
\* 0-based index min(floor(0.95 n), n - 1) of the successful latencies
\* sorted ascending, and the index calculate_metrics computes is below n.
C17_P95Index ==
    (Aggregated /\ SuccessLatencies(requests) # <<>>) =>
        LET q == SuccessLatencies(requests)
            n == Len(q)
        IN  /\ P95Index(n) < n
            /\ P95Index(n) = Min(Floor95(n), n - 1)
            /\ metrics.response_time_p95.den = 1
            /\ AtSortedIndex(q, Min(Floor95(n), n - 1),
                             metrics.response_time_p95.num)

\* Twenty-one successful samples: the p95 is the one at index 19, which is
\* not the slowest.
C17_Witness ==
    /\ Aggregated
    /\ Len(SuccessLatencies(requests)) = 21
    /\ AtSortedIndex(SuccessLatencies(requests), 19,
                     metrics.response_time_p95.num)
    /\ \E i \in 1..Len(requests) :
           requests[i].response_time > metrics.response_time_p95.num

\* The batch with the latency of its i-th sample replaced by l.
WithLatency(reqs, i, l) ==
    [reqs EXCEPT ![i] = [@ EXCEPT !.response_time = l]]

\* The batch with the latency of every failed sample replaced by l.
WithFailedLatency(reqs, l) ==
    [i \in 1..Len(reqs) |->
        IF reqs[i].success THEN reqs[i]
        ELSE [reqs[i] EXCEPT !.response_time = l]]

OtherLatencies == {1, 9000}

\* C18: the average and the p95 are those of the successful samples alone:
\* the average is their mean, replacing the latency of any failed sample
\* (or of all of them) changes neither, and with no successful sample (all
\* failed, or the empty batch) both are 0 while the error rate is 100.
C18_SuccessfulOnly ==
    Aggregated =>
        LET q == SuccessLatencies(requests)
            same(alt) ==
                LET m == calculate_metrics(alt).metrics
                IN  /\ m.response_time_avg = metrics.response_time_avg
                    /\ m.response_time_p95 = metrics.response_time_p95
        IN  /\ q # <<>> =>
                   metrics.response_time_avg.num * Len(q)
                       = SumSeq(q) * metrics.response_time_avg.den
            /\ \A l \in OtherLatencies :
                   /\ same(WithFailedLatency(requests, l))
                   /\ \A i \in 1..Len(requests) :
                          ~requests[i].success =>
                              same(WithLatency(requests, i, l))
            /\ q = <<>> =>
                   /\ metrics.response_time_avg = Num(0)
                   /\ metrics.response_time_p95 = Num(0)
                   /\ metrics.error_rate = Num(100)

\* A batch of successful and failed samples with a non-zero average, and
\* a failed sample slower than the p95.
C18_Witness ==
    /\ Aggregated
    /\ FailedCount(requests) >= 2
    /\ Len(SuccessLatencies(requests)) >= 2
    /\ Gt(metrics.response_time_avg, 0)
    /\ \E i \in 1..Len(requests) :
           /\ ~requests[i].success
           /\ requests[i].response_time > metrics.response_time_p95.num

\* The largest of the latencies q.
Largest(q) == CHOOSE v \in {q[i] : i \in 1..Len(q)} :
                  \A i \in 1..Len(q) : q[i] <= v

\* A latency above the critical p95 threshold.
SlowLatency == config.thresholds.p95_latency_ms.critical + 1

\* C28: with 1 to 19 successful samples the p95 is the largest successful
\* latency, so it is at least the average, and one slow successful sample
\* alone makes the p95 slow and raises the critical p95 alert.
C28_P95IsMaximum ==
    (Aggregated /\ Len(SuccessLatencies(requests)) \in 1..19) =>
        LET q == SuccessLatencies(requests)
        IN  /\ metrics.response_time_p95 = Num(Largest(q))
            /\ ~Gt(metrics.response_time_avg, Largest(q))
            /\ \A i \in 1..Len(requests) :
                   requests[i].success =>
                       LET m == calculate_metrics(
                                    WithLatency(requests, i, SlowLatency)).metrics
                       IN  /\ m.response_time_p95 = Num(SlowLatency)
                           /\ p95_latency_alerts(m) # <<>>
                           /\ p95_latency_alerts(m)[1].level = "critical"

\* Nineteen successful samples that did not come in ascending order: the
\* p95 is the slowest of them and above the average.
C28_Witness ==
    /\ Aggregated
    /\ Len(SuccessLatencies(requests)) = 19
    /\ FailedCount(requests) = 0
    /\ requests[19].response_time < requests[1].response_time
    /\ metrics.response_time_p95 = Num(Largest(SuccessLatencies(requests)))
    /\ ~Ge(metrics.response_time_avg, Largest(SuccessLatencies(requests)))

(***************************************************************************)
(* Claims about the monitoring cycle, under Spec.                          *)
(***************************************************************************)
\* The alert entries handed to the logger in this cycle, in order.
AlertEntries == SelectSeq(logged, LAMBDA e : e.kind = "alert")

\* The alert entry the logger writes for a candidate alert.
EntryOf(alert) ==
    [kind |-> "alert", type |-> alert.type, level |-> Upper(alert.level),
     message |-> alert.message, value |-> alert.value,
     threshold |-> alert.threshold]

\* The candidates answered so far, and those of them should_alert passed.
Answered == 1..Len(answers)

RECURSIVE Passed(_)
Passed(n) ==
    IF n = 0 THEN <<>>
    ELSE IF answers[n] THEN Append(Passed(n - 1), EntryOf(alerts[n]))
    ELSE Passed(n - 1)

AlertMetrics(type) ==
    SelectSeq(logged, LAMBDA e : e.kind = "metric" /\ e.metric = "alert_" \o type)

\* C10: at every point of a cycle the alert entries handed to the logger
\* are those of the candidate alerts should_alert has passed, in candidate
\* order; a candidate should_alert suppressed has no entry; and each passed
\* candidate has exactly one alert entry and one alert_<type> metric record.
C10_OnlyGatedAlertsEmitted ==
    /\ Len(answers) <= Len(alerts)
    /\ AlertEntries = Passed(Len(answers))
    /\ \A i \in Answered :
           LET n == IF answers[i] THEN 1 ELSE 0
           IN  /\ Len(SelectSeq(AlertEntries,
                                LAMBDA e : e.type = alerts[i].type)) = n
               /\ Len(AlertMetrics(alerts[i].type)) = n
               /\ \A k \in 1..Len(AlertMetrics(alerts[i].type)) :
                      AlertMetrics(alerts[i].type)[k].status = alerts[i].level

\* A finished cycle in which one candidate was suppressed and a later one
\* was emitted.
C10_Witness ==
    /\ pc = "sleep"
    /\ Len(answers) = Len(alerts)
    /\ \E i \in Answered, j \in Answered :
           i < j /\ ~answers[i] /\ answers[j]
    /\ Len(AlertEntries) >= 1

\* The names of the records of log_metrics, in the order it writes them.
MetricNames ==
    <<"response_time_avg", "response_time_p95", "error_rate",
      "consecutive_failures", "health_status">>

\* The records of log_metrics handed to the logger in this cycle.
CycleMetrics ==
    SelectSeq(logged,
              LAMBDA e : /\ e.kind = "metric"
                         /\ \E k \in 1..5 : e.metric = MetricNames[k])

\* The cycle has reached the logging step.
Logged == pc \in {"inference", "cleanup", "sleep", "stopped"}

FiveRecords ==
    /\ ~Logged => CycleMetrics = <<>>
    /\ Logged =>
           /\ Len(CycleMetrics) = 5
           /\ \A k \in 1..5 : CycleMetrics[k].metric = MetricNames[k]
           /\ CycleMetrics[1].value = metrics.response_time_avg
           /\ CycleMetrics[2].value = metrics.response_time_p95
           /\ CycleMetrics[3].value = metrics.error_rate
           /\ CycleMetrics[4].value = Num(metrics.consecutive_failures)
           /\ CycleMetrics[5].value =
                  IF metrics.health_status THEN Num(1) ELSE Num(0)

\* C12 as stated: a cycle that has reached the logging step has emitted
\* exactly the five metric records, each tagged with the overall status.
C12_AsStated ==
    /\ FiveRecords
    /\ Logged =>
           \A k \in 1..5 : CycleMetrics[k].status = overall_status(metrics)

\* C12, amended: a cycle that has reached the logging step has emitted
\* exactly the five metric records response_time_avg, response_time_p95,
\* error_rate, consecutive_failures and health_status, whatever the
\* thresholds crossed and the alerts suppressed; the first four are tagged
\* with the overall status, the health_status record with "normal" when the
\* service is healthy and "critical" when it is not.
C12_FiveMetricRecords ==
    /\ FiveRecords
    /\ Logged =>
           /\ \A k \in 1..4 :
                  CycleMetrics[k].status = overall_status(metrics)
           /\ CycleMetrics[5].status =
                  IF metrics.health_status THEN "normal" ELSE "critical"

\* A healthy service in a cycle whose overall status is critical, with a
\* suppressed alert: the health_status record is tagged "normal".
C12_Witness ==
    /\ pc = "inference"
    /\ Len(CycleMetrics) = 5
    /\ metrics.health_status
    /\ CycleMetrics[1].status = "critical"
    /\ CycleMetrics[5].status = "normal"
    /\ \E i \in 1..Len(answers) : ~answers[i]

\* The age in minutes of a snapshot at the minute t.
Age(e, t) == t - e.timestamp

\* C14: a prune step leaves in metrics_history exactly the snapshots
\* younger than one hour, in their order: a snapshot older than one hour
\* and one exactly one hour old are removed, and every snapshot left has a
\* timestamp strictly later than now minus one hour.
C14_PruneRetention ==
    [][pc = "cleanup" =>
          /\ metrics_history' =
                 SelectSeq(metrics_history,
                           LAMBDA e : Age(e, now') < RetentionMinutes)
          /\ \A i \in 1..Len(metrics_history') :
                 metrics_history'[i].timestamp > now' - RetentionMinutes
          /\ \A i \in 1..Len(metrics_history) :
                 Age(metrics_history[i], now') >= RetentionMinutes =>
                     \A j \in 1..Len(metrics_history') :
                         metrics_history'[j] # metrics_history[i]]_vars

\* The second cycle began exactly one hour after the first: the prune step
\* has removed the first snapshot and kept the second.
C14_Witness ==
    /\ pc = "sleep"
    /\ cycles = 2
    /\ now = RetentionMinutes
    /\ Len(metrics_history) = 1
    /\ metrics_history[1].timestamp = now

\* The probes of the cycle are done.
Probed == pc \notin {"idle", "probing"}

SamplesPerCheck == config.monitoring.samples_per_check

FailedProbes == Cardinality({k \in 1..Len(probes) : ~probes[k].ok})

C20_HealthFromProbe ==
    /\ Probed /\ pc # "aggregate" =>
           /\ metrics.health_status = probes[1].ok
           /\ health_status = probes[1].ok
    /\ pc = "alerting" =>
           metrics_history[Len(metrics_history)].health_status = probes[1].ok

\* The second cycle found the service healthy after a first cycle that
\* found it unhealthy, and its other sample failed.
C20_Witness ==
    /\ pc = "alerting"
    /\ cycles = 2
    /\ Len(metrics_history) = 2
    /\ ~metrics_history[1].health_status
    /\ Len(probes) = 2
    /\ probes[1].ok /\ ~probes[2].ok
    /\ metrics.health_status
    /\ Gt(metrics.error_rate, 0)

\* C22 as stated: the sample of the health probe carries status 200 when
\* the probe succeeded, 0 when no answer came, and the status received
\* when the answer was not a 200.
C22_AsStated ==
    Len(probes) >= 1 =>
        LET resp == probes[1].resp
            sample == requests[1]
        IN  /\ probes[1].ok => sample.status_code = 200
            /\ resp.kind = "error" => sample.status_code = 0
            /\ (resp.kind = "response" /\ resp.status # 200) =>
                   sample.status_code = resp.status

\* The health probe got no answer and its sample carries status 500.
C22_Witness ==
    /\ Len(probes) >= 1
    /\ probes[1].op = "check_health"
    /\ probes[1].resp.kind = "error"
    /\ ~requests[1].success
    /\ requests[1].status_code = 500

\* The order of the steps of start_monitoring: from each position, the
\* positions that may follow.
StepOrder ==
    {<<"idle", "probing">>, <<"idle", "aggregate">>,
     <<"probing", "aggregate">>, <<"aggregate", "alerting">>,
     <<"alerting", "inference">>, <<"inference", "cleanup">>,
     <<"inference", "stopped">>, <<"cleanup", "sleep">>,
     <<"sleep", "idle">>, <<"sleep", "stopped">>}

\* C25: the steps of a cycle come in the order probing, aggregating (the
\* snapshot stored and the counter updated), threshold evaluation, gated
\* alert emission, metric emission, inference test, pruning; the monitor
\* sleeps only after pruning and starts the next cycle only after the
\* sleep: every alert of a cycle is emitted before its metric records, and
\* the histories are pruned only after both.
C25_StepOrder ==
    [][/\ pc' # pc => <<pc, pc'>> \in StepOrder
       /\ pc' = pc => pc \in {"probing", "alerting"}
       /\ Len(requests') > Len(requests) => pc \in {"idle", "probing"}
       /\ metrics' # metrics /\ metrics' # <<>> =>
              /\ pc = "aggregate" /\ pc' = "alerting"
              /\ metrics_history' = Append(metrics_history, metrics')
              /\ consecutive_failures' = metrics'.consecutive_failures
              /\ alerts' = check_thresholds(metrics')
       /\ Len(AlertEntries') > Len(AlertEntries) =>
              /\ pc = "alerting" /\ pc' = "alerting"
              /\ CycleMetrics' = <<>>
       /\ Len(CycleMetrics') > Len(CycleMetrics) =>
              /\ pc = "alerting" /\ pc' = "inference"
              /\ Len(answers) = Len(alerts)
              /\ AlertEntries' = AlertEntries
       /\ pc = "cleanup" =>
              /\ Len(CycleMetrics) = 5
              /\ Len(answers) = Len(alerts)
              /\ pc' = "sleep"
       /\ Len(metrics_history') < Len(metrics_history) => pc = "cleanup"
       /\ now' # now => pc = "sleep" /\ pc' = "idle"
       /\ cycles' # cycles => pc = "idle"]_vars

\* A first cycle that emitted an alert has been through all its steps and
\* the sleep: the monitor is about to start its second cycle.
C25_Witness ==
    /\ pc = "idle"
    /\ cycles = 1
    /\ now = DefaultCooldownMinutes
    /\ Len(trail) = 1
    /\ Len(trail[1].alerts) >= 1
    /\ Len(trail[1].metrics) = 5
    /\ Len(metrics_history) = 1

\* The health probe's sample is part of what the snapshot m counts.
HealthCounted(m) ==
    /\ ~m.health_status =>
           /\ m.failed_requests >= 1
           /\ Gt(m.error_rate, 0)
           /\ m.consecutive_failures >= 1
    /\ m.health_status => m.successful_requests >= 1
    /\ ~(~m.health_status /\ m.failed_requests = 0)

\* C26: in every snapshot a cycle produces, an unhealthy service comes
\* with at least one failed sample, an error rate above 0 and a counter of
\* at least 1, and a healthy one with at least one successful sample: no
\* snapshot reports an unhealthy service with a fully successful batch.
C26_HealthCounted ==
    /\ metrics # <<>> => HealthCounted(metrics)
    /\ \A i \in 1..Len(metrics_history) : HealthCounted(metrics_history[i])

\* The health probe failed and the other probe succeeded: one failed
\* sample, an error rate of 50 and a counter of 1.
C26_Witness ==
    /\ pc = "alerting"
    /\ ~metrics.health_status
    /\ metrics.failed_requests = 1
    /\ metrics.successful_requests = 1
    /\ metrics.error_rate = Num(50)
    /\ metrics.consecutive_failures = 1

\* C27: request_history is empty in every state, no step putting a sample
\* in it, while each cycle adds exactly one snapshot to metrics_history,
\* when it aggregates, and only the prune step removes any.
C27_SnapshotsOnly ==
    /\ [](request_history = <<>>)
    /\ [][/\ request_history' = <<>>
          /\ pc = "aggregate" =>
                 /\ Len(metrics_history') = Len(metrics_history) + 1
                 /\ metrics_history' = Append(metrics_history, metrics')
          /\ Len(metrics_history') > Len(metrics_history) => pc = "aggregate"
          /\ Len(metrics_history') < Len(metrics_history) => pc = "cleanup"]_vars

\* The second cycle has aggregated its two samples: two snapshots are
\* stored and no sample.
C27_Witness ==
    /\ pc = "alerting"
    /\ cycles = 2
    /\ Len(requests) = 2
    /\ Len(metrics_history) = 2
    /\ request_history = <<>>

(***************************************************************************)
(* Claims about the probes, under ProbeSpec.                               *)
(***************************************************************************)
ProbeOps == {"check_health", "perform_request", "test_inference"}

Probing == call.op \in ProbeOps

\* The probe returned a failed result value.
FailedResult ==
    /\ ~call.result.raised
    /\ IF call.op = "perform_request"
       THEN ~call.result.sample.success
       ELSE ~call.result.ok

\* The outbound call failed: no answer, a status that is not 2xx, or a
\* body that is not JSON.
CallFailed ==
    \/ call.resp.kind = "error"
    \/ call.resp.status \notin 200..299
    \/ ~call.resp.json

\* C21 as stated: no probe raises, and each returns a failed result value
\* when the outbound call failed (no answer, non-2xx status, non-JSON body).
C21_AsStated ==
    Probing =>
        /\ ~call.result.raised
        /\ CallFailed => FailedResult

\* C21, amended: no probe raises, whatever the outbound call does.
\* check_health is healthy exactly for a 200 with a JSON body;
\* perform_request fails exactly for no answer (status_code 0) or a status
\* of 400 or more, and succeeds for a status below 400 whatever the body;
\* test_inference is ok exactly for a 200 with a JSON body holding the
\* expected fields, the test image being on disk.
C21_ProbesNeverRaise ==
    Probing =>
        LET resp == call.resp
            r == call.result
            good == resp.kind = "response" /\ resp.status = 200 /\ resp.json
        IN  /\ ~r.raised
            /\ call.op = "check_health" => (r.ok <=> good)
            /\ call.op = "perform_request" =>
                   /\ r.sample.success <=>
                          (resp.kind = "response" /\ resp.status < 400)
                   /\ resp.kind = "error" => r.sample.status_code = 0
                   /\ resp.kind = "response" =>
                          r.sample.status_code = resp.status
            /\ call.op = "test_inference" =>
                   (r.ok <=> (good /\ call.image_exists /\ call.has_fields))
            /\ (~r.raised /\ FailedResult /\ call.op # "perform_request")
                   => r.logged # <<>>

\* check_health got a 200 whose body is not JSON: it returned unhealthy.
C21_Witness ==
    /\ call.op = "check_health"
    /\ call.resp.kind = "response"
    /\ call.resp.status = 200
    /\ ~call.resp.json
    /\ FailedResult
    /\ logged = <<LogEntry("ERROR", "Health check error")>>

\* start_monitoring has returned: no cycle is started any more.
Terminal == pc = "stopped"

\* C13 as stated: start_monitoring ends only on the operator's interrupt;
\* an exception raised inside a cycle (a division by an interval of 0) is
\* logged and the loop goes on, so it never leaves the monitor stopped.
C13_AsStated ==
    Terminal => call.op = "except" /\ call.exception = "KeyboardInterrupt"

\* The first cycle of a monitor configured with an interval of 0 raised
\* ZeroDivisionError after its metrics were logged: the error is logged and
\* the monitor has stopped.
C13_Witness ==
    /\ Terminal
    /\ cycles = 1
    /\ config.monitoring.inference_test_interval_minutes = 0
    /\ call.op = "except" /\ call.exception = "ZeroDivisionError"
    /\ logged[Len(logged)] = LogEntry("ERROR", "monitoring error")

(***************************************************************************)
(* Claims about the cycle of three samples of 100, 200 and 9000 ms, under  *)
(* ScenarioSpec.                                                           *)
(***************************************************************************)
\* The batch of the running cycle is the three successful samples.
ScenarioBatch ==
    /\ Len(requests) = 3
    /\ \A i \in 1..3 : requests[i].success
    /\ Sorted([i \in 1..3 |-> requests[i].response_time]) = ScenarioLatencies

\* The <<type, level>> of the alerts a cycle emitted, in order.
EmittedAlerts(e) ==
    [i \in 1..Len(e.alerts) |-> <<e.alerts[i].type, e.alerts[i].level>>]

\* The cycle reported an average of 3100 ms and a p95 of 9000 ms.
ScenarioValues(e) ==
    /\ e.metrics[1].metric = "response_time_avg"
    /\ e.metrics[1].value = Num(3100)
    /\ e.metrics[2].metric = "response_time_p95"
    /\ e.metrics[2].value = Num(9000)

\* The cycles after the first that began within the cooldown of the first.
InsideCooldown(j) ==
    /\ j \in 2..Len(trail)
    /\ trail[1].cycle = 1
    /\ ScenarioValues(trail[1])
    /\ ScenarioValues(trail[j])
    /\ trail[j].at - trail[1].at < config.alerts.cooldown_minutes

ScenarioSnapshot ==
    (ScenarioBatch /\ metrics # <<>>) =>
        /\ metrics.response_time_avg = Num(3100)
        /\ metrics.response_time_p95 = Num(9000)

ScenarioRepeat ==
    \A j \in 2..Len(trail) :
        InsideCooldown(j) =>
            /\ trail[j].alerts = <<>>
            /\ trail[j].metrics = trail[1].metrics

\* C11 as stated: three successful samples of 100, 200 and 9000 ms give an
\* average of 3100 and a p95 of 9000; the first such cycle emits exactly one
\* alert, a critical p95_latency alert; a later such cycle inside the
\* cooldown emits no alert and the same metric records.
C11_AsStated ==
    /\ ScenarioSnapshot
    /\ \A i \in 1..Len(trail) :
           (trail[i].cycle = 1 /\ ScenarioValues(trail[i])) =>
               EmittedAlerts(trail[i]) = <<<<"p95_latency", "CRITICAL">>>>
    /\ ScenarioRepeat

\* C11, amended: three successful samples of 100, 200 and 9000 ms give an
\* average of 3100 and a p95 of 9000; under the default thresholds the
\* first such cycle emits two alerts, a warning response_time alert (3100
\* is above the warning threshold 2000) and then one critical p95_latency
\* alert; a later such cycle inside the cooldown emits no alert and the
\* same metric records (names, values, status).
C11_ScenarioAlerts ==
    /\ ScenarioSnapshot
    /\ \A i \in 1..Len(trail) :
           (trail[i].cycle = 1 /\ ScenarioValues(trail[i])) =>
               EmittedAlerts(trail[i]) =
                   <<<<"response_time", "WARNING">>,
                     <<"p95_latency", "CRITICAL">>>>
    /\ ScenarioRepeat

\* The first cycle emitted its alerts and a second cycle in the same minute
\* emitted none, with the same five metric records.
C11_Witness ==
    /\ Len(trail) = 2
    /\ InsideCooldown(2)
    /\ Len(trail[1].alerts) = 2
    /\ trail[2].alerts = <<>>
    /\ Len(trail[2].metrics) = 5
    /\ trail[2].metrics = trail[1].metrics

=============================================================================
